---- MODULE Spec2Model ----
(***************************************************************************)
(* pve-ontap-snapshot: a command line tool that drives a Proxmox cluster   *)
(* (the compute-node API, proxmoxer) and a NetApp ONTAP controller (the    *)
(* storage-controller API, netapp_ontap).  One invocation constructs a VM  *)
(* or a Storage object and calls one of its methods.                       *)
(*                                                                         *)
(* Strings are modelled as sequences of lexemes: "storageA-CLONE" is       *)
(* <<"storageA", "-CLONE">>, "/storageA_vol" is <<"/", "storageA_vol">>.   *)
(* The Python string methods the program uses (in, split, strip,           *)
(* removesuffix, os.path.split, os.path.splitext) are computed on these    *)
(* sequences.                                                              *)
(*                                                                         *)
(* Every request to one of the two APIs is one step of the invocation; the *)
(* requests that change something, and the lifecycle requests, are         *)
(* recorded in the invocation's log in the order they are issued.          *)
(***************************************************************************)
EXTENDS Integers, Sequences, FiniteSets, TLC

VARIABLES
    pveStorage,   \* compute node: backend name -> its attributes
    volumes,      \* storage controller: volume name -> the volume
    vmStatus,     \* compute node: the power state of the VM
    runs,         \* how many VM invocations have been started
    clock,        \* the UTC second, as gmtime() reads it
    proc,         \* the invocations: position, object fields, log, exit status
    hist          \* history: the state a mount started from

vars == <<pveStorage, volumes, vmStatus, runs, clock, proc, hist>>

(***************************************************************************)
(* Bounds                                                                  *)
(***************************************************************************)
MaxClock == 1       \* gmtime() reads seconds 0..MaxClock
MaxPolls == 3       \* a task is polled at most this many times
MaxRuns == 1        \* VM invocations in one behaviour

(***************************************************************************)
(* Strings                                                                 *)
(***************************************************************************)
\* Python: pat in s
Contains(s, pat) ==
    \E i \in 0..(Len(s) - Len(pat)) : SubSeq(s, i + 1, i + Len(pat)) = pat

\* Python: s.startswith(pre)
StartsWith(s, pre) ==
    Len(s) >= Len(pre) /\ SubSeq(s, 1, Len(pre)) = pre

\* Python: s.endswith(suf)
EndsWith(s, suf) ==
    Len(s) >= Len(suf) /\ SubSeq(s, Len(s) - Len(suf) + 1, Len(s)) = suf

\* Python: s.removesuffix(suf): the suffix is removed once
removesuffix(s, suf) ==
    IF suf # <<>> /\ EndsWith(s, suf) THEN SubSeq(s, 1, Len(s) - Len(suf)) ELSE s

\* Python: s.strip(c): every leading and trailing c is removed
RECURSIVE strip(_, _)
strip(s, c) ==
    IF s = <<>> THEN s
    ELSE IF Head(s) = c THEN strip(Tail(s), c)
    ELSE IF s[Len(s)] = c THEN strip(SubSeq(s, 1, Len(s) - 1), c)
    ELSE s

\* Python: s.split(c): the pieces between the occurrences of c, empty ones kept
RECURSIVE split(_, _)
split(s, c) ==
    IF \A i \in 1..Len(s) : s[i] # c THEN <<s>>
    ELSE LET k == CHOOSE i \in 1..Len(s) :
                      s[i] = c /\ \A j \in 1..(i - 1) : s[j] # c
         IN  <<SubSeq(s, 1, k - 1)>> \o split(SubSeq(s, k + 1, Len(s)), c)

\* the index of the last c in s, 0 when there is none
RFind(s, c) ==
    IF \A i \in 1..Len(s) : s[i] # c THEN 0
    ELSE CHOOSE i \in 1..Len(s) : s[i] = c /\ \A j \in (i + 1)..Len(s) : s[j] # c

(***************************************************************************)
(* Names                                                                   *)
(***************************************************************************)
CLONE_SUFFIX == <<"-CLONE">>            \* '-CLONE'
VOLUME_CLONE == <<"_clone">>            \* '_clone'
SNAPSHOT_PREFIX == <<"proxmox_snapshot_">>
SLASH == "/"

storageA == <<"storageA">>
storageB == <<"storageB">>

\* the sections of config.ini that describe a storage backend
ConfigSections == {storageA, storageB}

\* an absent value: get_volume's None, an unset field
None == <<"<None>">>

\* strftime("%Y-%m-%d_%H:%M:%S+0000", gmtime())
strftime(t) == <<ToString(t)>>

(***************************************************************************)
(* The two systems as the program finds them                               *)
(***************************************************************************)
Backend(export) ==
    [export |-> export, server |-> "nas1", type |-> "nfs", content |-> "images"]

InitStorage ==
    [n \in {storageA, storageB} |->
        IF n = storageA THEN Backend(<<SLASH, "storageA_vol">>)
                        ELSE Backend(<<SLASH, "storageB_vol">>)]

OldSnapshot == SNAPSHOT_PREFIX \o <<"2024">>
ForeignSnapshot == <<"daily_">> \o SNAPSHOT_PREFIX \o <<"2024">>
ManualSnapshot == <<"manual">>

PlainVolume(snaps, files) ==
    [is_flexclone |-> FALSE, parent |-> None, parent_snapshot |-> None,
     snaps |-> snaps, files |-> files]

\* a FlexClone of parent at snapshot: it starts with that snapshot and with
\* the parent's files
CloneVolume(parent, snapshot, files) ==
    [is_flexclone |-> TRUE, parent |-> parent, parent_snapshot |-> snapshot,
     snaps |-> {snapshot}, files |-> files]

IMAGES == <<"images", SLASH>>          \* 'images/'

\* the disk images of the VM, as the VM configs below name them
DiskA0 == <<"vm-100-disk-0", ".", "qcow2">>
DiskA1 == <<"vm-100-disk-1", ".", "qcow2">>
DiskA2 == <<"100", SLASH, "vm-100-disk-0", ".", "qcow2">>
DiskB0 == <<"100", SLASH, "vm-100-disk-1", ".", "v2", ".", "raw">>

\* the file an earlier vm create left on storageB_vol: DiskB0 as it was at
\* second 0
OldDiskSnapshot ==
    <<"images", SLASH, "100", SLASH, "vm-100-disk-1", ".", "v2", "-snapshot-", "0",
      ".", "raw">>

\* the files of a volume map a path to the data it holds: "now" for the
\* disk of the VM, "then" for an earlier state of it
InitVolumes ==
    [n \in {<<"storageA_vol">>, <<"storageB_vol">>} |->
        IF n = <<"storageA_vol">>
        THEN PlainVolume({OldSnapshot, ForeignSnapshot, ManualSnapshot},
                         [f \in {IMAGES \o DiskA0, IMAGES \o DiskA1,
                                 IMAGES \o DiskA2} |-> "now"])
        ELSE PlainVolume({OldSnapshot},
                         [f \in {IMAGES \o DiskB0, OldDiskSnapshot} |->
                             IF f = OldDiskSnapshot THEN "then" ELSE "now"])]

\* f with x mapped to v
Put(f, x, v) == [y \in DOMAIN f \cup {x} |-> IF y = x THEN v ELSE f[y]]
\* f without x
Drop(f, x) == [y \in DOMAIN f \ {x} |-> f[y]]

(***************************************************************************)
(* Invocations                                                             *)
(***************************************************************************)
Procs == {"p1"}

Idle ==
    [pc |-> "idle", cmd |-> "", storage |-> <<>>, snapshot |-> <<>>,
     suspend |-> FALSE, shutdown |-> FALSE,
     volume_name |-> <<>>, access |-> <<>>, volume |-> None,
     cloneOk |-> FALSE, store |-> Backend(<<>>),
     variant |-> "", config |-> <<>>, status |-> "", storages |-> <<>>,
     i |-> 1, timestamp |-> <<>>, task |-> "none", polls |-> 0,
     warned |-> FALSE,
     log |-> <<>>, out |-> {}, exitCode |-> 0, exc |-> ""]

StorageCmds ==
    {"create", "restore", "delete", "list", "mount", "unmount", "show"}

\* the -storage arguments tried
StorageArgs ==
    {storageA, storageA \o CLONE_SUFFIX,
     storageA \o CLONE_SUFFIX \o CLONE_SUFFIX, <<"nosuch">>}

\* the -snapshot arguments tried
SnapshotArgs == {OldSnapshot, <<"nosuch">>}

NoHist ==
    [stage |-> "none", storage |-> <<>>, snapshot |-> <<>>,
     pve0 |-> InitStorage, vols0 |-> InitVolumes]

\* storage=f'{self.storage}-CLONE'
clone_backend(storage) == storage \o CLONE_SUFFIX

Event(op, a, b) == [op |-> op, a |-> a, b |-> b]

Running(p) == proc[p].pc \notin {"idle", "done", "exit"}

\* the invocation goes on with its fields changed to r
Step(p, r) == proc' = [proc EXCEPT ![p] = r]

\* sys.exit(1) in the program, or an exception nobody catches: the
\* interpreter prints the traceback and the exit status is 1
Exit(s, exc) == [s EXCEPT !.pc = "exit", !.exitCode = 1, !.exc = exc]

\* the method returned and so did caller(): exit status 0
Done(s) == [s EXCEPT !.pc = "done", !.exitCode = 0]

\* what a request to the compute node may answer
PveOutcome == {"ok", "ResourceException", "ConnectionError"}
\* what a request to the storage controller may answer
OntapOutcome == {"ok", "NetAppRestError", "ConnectionError"}

(***************************************************************************)
(* get_volume(vol, access)                                                 *)
(***************************************************************************)
get_volume(vol) == IF vol \in DOMAIN volumes THEN vol ELSE None

(***************************************************************************)
(* Storage.__init__                                                        *)
(***************************************************************************)
\* the export of the backend, without its slashes
export_volume_name(storage) == strip(pveStorage[storage].export, SLASH)

\* a key with every trailing -CLONE removed
RECURSIVE access_key_all_suffixes(_)
access_key_all_suffixes(storage) ==
    IF EndsWith(storage, CLONE_SUFFIX)
    THEN access_key_all_suffixes(SubSeq(storage, 1, Len(storage) - Len(CLONE_SUFFIX)))
    ELSE storage

\* the key of the configuration section that holds the access bundle
access_key(storage) == removesuffix(storage, CLONE_SUFFIX)

\* the exception Storage.__init__ ends with, "" when it returns
Storage_init_exc(storage) ==
    IF storage \notin DOMAIN pveStorage THEN "ResourceException"
    ELSE IF access_key(storage) \notin ConfigSections THEN "KeyError"
    ELSE ""

Begin(p, cmd, storage, snapshot) ==
    /\ proc[p].pc = "idle"
    /\ cmd \in StorageCmds
    /\ Step(p, [Idle EXCEPT !.pc = "Storage_init", !.cmd = cmd,
                            !.storage = storage,
                            !.snapshot = IF cmd \in {"restore", "delete", "mount"}
                                         THEN snapshot ELSE <<>>])
    /\ hist' =
         IF cmd = "mount"
         THEN [stage |-> "mount", storage |-> storage, snapshot |-> snapshot,
               pve0 |-> pveStorage, vols0 |-> volumes]
         ELSE IF /\ cmd = "unmount"
                 /\ hist.stage = "mounted"
                 /\ storage = clone_backend(hist.storage)
         THEN [hist EXCEPT !.stage = "unmount"]
         ELSE NoHist
    /\ UNCHANGED <<pveStorage, volumes, vmStatus, runs, clock>>

\* the process has ended; the next invocation is a fresh process
Terminate(p) ==
    /\ proc[p].pc \in {"done", "exit"}
    /\ Step(p, Idle)
    /\ UNCHANGED <<pveStorage, volumes, vmStatus, runs, clock, hist>>

Storage_init(p) ==
    /\ proc[p].pc = "Storage_init"
    /\ \E r \in PveOutcome \ {"ResourceException"} :
         LET s == proc[p]
             exc == IF r # "ok" THEN r ELSE Storage_init_exc(s.storage)
         IN  IF exc # "" THEN Step(p, Exit(s, exc))
             ELSE Step(p, [s EXCEPT !.pc = s.cmd,
                                    !.volume_name = export_volume_name(s.storage),
                                    !.access = access_key(s.storage)])
    /\ UNCHANGED <<pveStorage, volumes, vmStatus, runs, clock, hist>>

(***************************************************************************)
(* Storage.unmount                                                         *)
(***************************************************************************)
\* a version of the check that lets every volume pass
is_flexclone_unchecked(volume) == TRUE

\* the clone flag of the volume get_volume returned
is_flexclone(volume) == volumes[volume].is_flexclone

\* the two delete requests the other way round
unmount_order_volume_first == <<"vol.delete", "pve.delete">>

\* the two delete requests, in the order unmount issues them
unmount_order == <<"pve.delete", "vol.delete">>

\* an unmount that gives up when another invocation is deleting the same
\* backend
Storage_unmount_locked(p) ==
    /\ proc[p].pc = "unmount"
    /\ LET s == proc[p]
           volume == get_volume(s.volume_name)
           held == \E q \in DOMAIN proc \ {p} :
                      /\ proc[q].cmd = "unmount"
                      /\ proc[q].storage = s.storage
                      /\ proc[q].pc \in {"pve.delete", "vol.delete"}
       IN  IF volume = None THEN Step(p, Exit(s, "AttributeError"))
           ELSE IF ~is_flexclone(volume) THEN Step(p, Exit(s, "sys.exit"))
           ELSE IF held THEN Step(p, Exit(s, "locked"))
           ELSE Step(p, [s EXCEPT !.pc = unmount_order[1], !.volume = volume])
    /\ UNCHANGED <<pveStorage, volumes, vmStatus, runs, clock, hist>>

\* an unmount that checks the clone flag only of a volume it found
Storage_unmount_skips_missing(p) ==
    /\ proc[p].pc = "unmount"
    /\ LET s == proc[p]
           volume == get_volume(s.volume_name)
       IN  IF volume # None /\ ~is_flexclone(volume)
           THEN Step(p, Exit(s, "sys.exit"))
           ELSE Step(p, [s EXCEPT !.pc = unmount_order[1], !.volume = volume])
    /\ UNCHANGED <<pveStorage, volumes, vmStatus, runs, clock, hist>>

Storage_unmount(p) ==
    /\ proc[p].pc = "unmount"
    /\ LET s == proc[p]
           volume == get_volume(s.volume_name)
       IN  IF volume = None THEN Step(p, Exit(s, "AttributeError"))
           ELSE IF ~is_flexclone(volume) THEN Step(p, Exit(s, "sys.exit"))
           ELSE Step(p, [s EXCEPT !.pc = unmount_order[1], !.volume = volume])
    /\ UNCHANGED <<pveStorage, volumes, vmStatus, runs, clock, hist>>

\* self.prox.storage(self.storage).delete()
Storage_unmount_pve_delete(p) ==
    /\ proc[p].pc = "pve.delete"
    /\ \E r \in PveOutcome :
         LET s == proc[p]
             logged == [s EXCEPT !.log = Append(@, Event("pve.delete", s.storage, <<>>))]
             exc == IF r # "ok" THEN r
                    ELSE IF s.storage \notin DOMAIN pveStorage
                    THEN "ResourceException" ELSE ""
             next == IF unmount_order[1] = "pve.delete"
                     THEN unmount_order[2] ELSE "done"
         IN  IF exc # ""
             THEN Step(p, Exit(logged, exc)) /\ UNCHANGED pveStorage
             ELSE /\ pveStorage' = Drop(pveStorage, s.storage)
                  /\ Step(p, IF next = "done" THEN Done(logged)
                             ELSE [logged EXCEPT !.pc = next])
    /\ UNCHANGED <<volumes, vmStatus, runs, clock, hist>>

\* an unmount that ends without deleting the clone volume
Storage_unmount_keeps_volume(p) ==
    /\ proc[p].pc = "vol.delete"
    /\ Step(p, Done(proc[p]))
    /\ UNCHANGED <<pveStorage, volumes, vmStatus, runs, clock, hist>>

\* volume.delete(force=True)
Storage_unmount_vol_delete(p) ==
    /\ proc[p].pc = "vol.delete"
    /\ \E r \in OntapOutcome :
         LET s == proc[p]
             logged == [s EXCEPT !.log = Append(@, Event("vol.delete", s.volume, <<>>))]
             exc == IF r # "ok" THEN r
                    ELSE IF s.volume \notin DOMAIN volumes
                    THEN "NetAppRestError" ELSE ""
             next == IF unmount_order[1] = "vol.delete"
                     THEN unmount_order[2] ELSE "done"
         IN  IF exc # ""
             THEN Step(p, Exit(logged, exc)) /\ UNCHANGED volumes
             ELSE /\ volumes' = Drop(volumes, s.volume)
                  /\ Step(p, IF next = "done" THEN Done(logged)
                             ELSE [logged EXCEPT !.pc = next])
    /\ UNCHANGED <<pveStorage, vmStatus, runs, clock, hist>>

(***************************************************************************)
(* Storage.mount                                                           *)
(***************************************************************************)
\* 'name' of the request body: f'{self.volume_name}_clone'
clone_name(volume_name) == volume_name \o VOLUME_CLONE

\* 'nas.path' of the request body and the export of the new backend
clone_export(volume_name) == <<SLASH>> \o clone_name(volume_name)

\* the storage controller takes the clone request: the name is free and the
\* parent volume has the snapshot
clone_accepted(volume_name, snapshot) ==
    /\ clone_name(volume_name) \notin DOMAIN volumes
    /\ volume_name \in DOMAIN volumes
    /\ snapshot \in volumes[volume_name].snaps

\* a mount that lets the exception of volume.post end the process
mount_aborts(exc) == FALSE

\* what mount does when volume.post raised: TRUE, it goes on to register
\* the backend (except NetAppRestError: print(e))
mount_continues(exc) == exc = "NetAppRestError"

Storage_mount(p) ==
    /\ proc[p].pc = "mount"
    /\ LET s == proc[p]
           parent_volume == get_volume(s.volume_name)
       IN  IF parent_volume = None THEN Step(p, Exit(s, "AttributeError"))
           ELSE Step(p, [s EXCEPT !.pc = "vol.post", !.volume = parent_volume])
    /\ UNCHANGED <<pveStorage, volumes, vmStatus, runs, clock, hist>>

\* volume.post(hydrate=True)
Storage_mount_vol_post(p) ==
    /\ proc[p].pc = "vol.post"
    /\ \E r \in OntapOutcome :
         LET s == proc[p]
             logged == [s EXCEPT !.log = Append(@,
                           Event("vol.post", clone_name(s.volume_name), s.snapshot))]
             exc == IF r # "ok" THEN r
                    ELSE IF ~clone_accepted(s.volume_name, s.snapshot)
                    THEN "NetAppRestError" ELSE ""
         IN  IF exc = ""
             THEN /\ volumes' = Put(volumes, clone_name(s.volume_name),
                                    CloneVolume(s.volume_name, s.snapshot,
                                                volumes[s.volume_name].files))
                  /\ Step(p, [logged EXCEPT !.pc = "pve.get", !.cloneOk = TRUE])
             ELSE /\ UNCHANGED volumes
                  /\ IF mount_continues(exc)
                     THEN Step(p, [logged EXCEPT !.pc = "pve.get", !.exc = exc])
                     ELSE Step(p, Exit(logged, exc))
    /\ UNCHANGED <<pveStorage, vmStatus, runs, clock, hist>>

\* store = self.prox.storage(self.storage).get()
Storage_mount_pve_get(p) ==
    /\ proc[p].pc = "pve.get"
    /\ \E r \in PveOutcome :
         LET s == proc[p]
             exc == IF r # "ok" THEN r
                    ELSE IF s.storage \notin DOMAIN pveStorage
                    THEN "ResourceException" ELSE ""
         IN  IF exc # "" THEN Step(p, Exit(s, exc))
             ELSE Step(p, [s EXCEPT !.pc = "pve.post", !.store = pveStorage[s.storage]])
    /\ UNCHANGED <<pveStorage, volumes, vmStatus, runs, clock, hist>>

\* self.prox.storage.post(storage=..., server=..., type=..., content=..., export=...)
Storage_mount_pve_post(p) ==
    /\ proc[p].pc = "pve.post"
    /\ \E r \in PveOutcome :
         LET s == proc[p]
             name == clone_backend(s.storage)
             export == clone_export(s.volume_name)
             logged == [s EXCEPT !.log = Append(@, Event("pve.post", name, export))]
             exc == IF r # "ok" THEN r
                    ELSE IF name \in DOMAIN pveStorage
                    THEN "ResourceException" ELSE ""
         IN  IF exc # ""
             THEN Step(p, Exit(logged, exc)) /\ UNCHANGED pveStorage
             ELSE /\ pveStorage' = Put(pveStorage, name,
                        [export |-> export, server |-> s.store.server,
                         type |-> s.store.type, content |-> s.store.content])
                  /\ Step(p, Done(logged))
    /\ hist' = IF proc'[p].pc = "done" /\ proc[p].cloneOk
               THEN [hist EXCEPT !.stage = "mounted"] ELSE NoHist
    /\ UNCHANGED <<volumes, vmStatus, runs, clock>>

(***************************************************************************)
(* Storage.list                                                            *)
(***************************************************************************)
\* the test a snapshot passes to be printed
list_filter(name) == Contains(name, SNAPSHOT_PREFIX)

\* the names Storage.list prints for a volume
list_output(volume) == {n \in volumes[volume].snaps : list_filter(n)}

Storage_list(p) ==
    /\ proc[p].pc = "list"
    /\ \E r \in OntapOutcome \ {"NetAppRestError"} :
         LET s == proc[p]
             volume == get_volume(s.volume_name)
         IN  IF r # "ok" THEN Step(p, Exit(s, r))
             ELSE IF volume = None THEN Step(p, Exit(s, "AttributeError"))
             ELSE Step(p, Done([s EXCEPT !.volume = volume,
                                         !.out = list_output(volume)]))
    /\ UNCHANGED <<pveStorage, volumes, vmStatus, runs, clock, hist>>

(***************************************************************************)
(* Storage.create                                                          *)
(***************************************************************************)
\* a name that is made different from the names some volume already has
volume_snapshot_name_unique(timestamp) ==
    IF \E v \in DOMAIN volumes : SNAPSHOT_PREFIX \o timestamp \in volumes[v].snaps
    THEN SNAPSHOT_PREFIX \o timestamp \o <<"_1">>
    ELSE SNAPSHOT_PREFIX \o timestamp

\* "name": f'proxmox_snapshot_{timestamp}'
volume_snapshot_name(timestamp) == SNAPSHOT_PREFIX \o timestamp

Storage_create(p) ==
    /\ proc[p].pc = "create"
    /\ LET s == proc[p]
           volume == get_volume(s.volume_name)
       IN  IF volume = None THEN Step(p, Exit(s, "AttributeError"))
           ELSE Step(p, [s EXCEPT !.pc = "snap.post", !.volume = volume,
                                  !.timestamp = strftime(clock),
                                  !.snapshot = volume_snapshot_name(strftime(clock))])
    /\ UNCHANGED <<pveStorage, volumes, vmStatus, runs, clock, hist>>

\* snapshot.post()
Storage_create_post(p) ==
    /\ proc[p].pc = "snap.post"
    /\ \E r \in OntapOutcome :
         LET s == proc[p]
             logged == [s EXCEPT !.log = Append(@, Event("snap.post", s.volume, s.snapshot))]
             exc == IF r # "ok" THEN r
                    ELSE IF \/ s.volume \notin DOMAIN volumes
                            \/ s.snapshot \in volumes[s.volume].snaps
                    THEN "NetAppRestError" ELSE ""
         IN  IF exc # ""
             THEN Step(p, Exit(logged, exc)) /\ UNCHANGED volumes
             ELSE /\ volumes' = [volumes EXCEPT ![s.volume].snaps = @ \cup {s.snapshot}]
                  /\ Step(p, Done(logged))
    /\ UNCHANGED <<pveStorage, vmStatus, runs, clock, hist>>

(***************************************************************************)
(* Storage.delete                                                          *)
(***************************************************************************)
\* a match by substring instead of equality
delete_matches_substring(volume, snapshot) ==
    {n \in volumes[volume].snaps : Contains(n, snapshot)}

\* the snapshots of the volume that snap.delete() is called on
delete_matches(volume, snapshot) == {n \in volumes[volume].snaps : n = snapshot}

Storage_delete(p) ==
    /\ proc[p].pc = "delete"
    /\ \E r \in OntapOutcome :
         LET s == proc[p]
             volume == get_volume(s.volume_name)
             hit == delete_matches(volume, s.snapshot)
             logged == [s EXCEPT !.volume = volume,
                                 !.log = Append(@, Event("snap.delete", volume, s.snapshot))]
         IN  IF volume = None
             THEN Step(p, Exit(s, "AttributeError")) /\ UNCHANGED volumes
             ELSE IF hit = {}
             THEN /\ UNCHANGED volumes
                  /\ IF r = "ConnectionError" THEN Step(p, Exit(s, r))
                     ELSE Step(p, Done([s EXCEPT !.volume = volume]))
             ELSE IF r # "ok"
             THEN Step(p, Exit(logged, r)) /\ UNCHANGED volumes
             ELSE /\ volumes' = [volumes EXCEPT ![volume].snaps = @ \ hit]
                  /\ Step(p, Done(logged))
    /\ UNCHANGED <<pveStorage, vmStatus, runs, clock, hist>>

(***************************************************************************)
(* Storage.restore, Storage.show                                           *)
(***************************************************************************)
Storage_restore(p) ==
    /\ proc[p].pc = "restore"
    /\ \E r \in OntapOutcome :
         LET s == proc[p]
             volume == get_volume(s.volume_name)
             logged == [s EXCEPT !.volume = volume,
                                 !.log = Append(@, Event("cli.restore", volume, s.snapshot))]
             exc == IF r # "ok" THEN r
                    ELSE IF s.snapshot \notin volumes[volume].snaps
                    THEN "NetAppRestError" ELSE ""
         IN  IF volume = None THEN Step(p, Exit(s, "AttributeError"))
             ELSE IF exc # "" THEN Step(p, Exit(logged, exc))
             ELSE Step(p, Done(logged))
    /\ UNCHANGED <<pveStorage, volumes, vmStatus, runs, clock, hist>>

Storage_show(p) ==
    /\ proc[p].pc = "show"
    /\ LET s == proc[p]
           volume == get_volume(s.volume_name)
       IN  IF volume = None THEN Step(p, Exit(s, "AttributeError"))
           ELSE Step(p, Done([s EXCEPT !.volume = volume]))
    /\ UNCHANGED <<pveStorage, volumes, vmStatus, runs, clock, hist>>

(***************************************************************************)
(* VM.__init__: the disks of the VM and the storages behind them           *)
(***************************************************************************)
\* the VM configs tried, each a sequence of <<key, value>> in the order
\* config.items() yields them
ConfigTwoDisksOneStorage ==
    << <<<<"scsi", "0">>, storageA \o <<":">> \o DiskA0 \o <<",", "size=32G">>>>,
       <<<<"scsi", "1">>, storageA \o <<":">> \o DiskA1 \o <<",", "size=10G">>>> >>

ConfigMixed ==
    << <<<<"boot">>, <<"order=", "scsi", "0">>>>,
       <<<<"scsi", "0">>, storageA \o <<":">> \o DiskA2 \o <<",", "size=32G">>>>,
       <<<<"ide", "2">>, <<"local", ":", "iso", SLASH, "debian", ".", "iso", ",",
                          "media=", "cdrom">>>>,
       <<<<"ide", "0">>, storageA \o <<":", "100", SLASH, "vm-100-cloudinit", ".",
                                      "qcow2", ",", "media=", "cdrom">>>>,
       <<<<"virtio", "0">>, storageB \o <<":", "100", SLASH, "vm-100-disk-2", ".",
                                         "qcow2">>>>,
       <<<<"sata", "0">>, storageB \o <<":">> \o DiskB0>>,
       <<<<"scsi", "hw">>, <<"virtio-", "scsi", "-pci">>>>,
       <<<<"net", "0">>, <<"virtio=AA:BB", ",", "bridge=vmbr0">>>> >>

\* a disk entry whose value has no colon
ConfigNoSeparator ==
    << <<<<"scsi", "0">>, DiskA0 \o <<",", "size=32G">>>> >>

\* a disk entry with nothing between the colon and the first comma
ConfigEmptyDisk ==
    << <<<<"scsi", "0">>, storageA \o <<":", ",", "format=", "qcow2">>>> >>

\* a VM with a second disk on the backend of a mounted clone
ConfigCloneDisk ==
    << <<<<"scsi", "0">>, storageA \o <<":">> \o DiskA2 \o <<",", "size=32G">>>>,
       <<<<"scsi", "1">>, clone_backend(storageA) \o <<":">> \o DiskA2>> >>

VMConfigs ==
    {ConfigTwoDisksOneStorage, ConfigMixed, ConfigNoSeparator, ConfigEmptyDisk}

\* a test that does not look for cdrom
qualifies_any_media(key, value) ==
    /\ \/ Contains(key, <<"ide">>)
       \/ Contains(key, <<"sata">>)
       \/ Contains(key, <<"scsi">>)
    /\ \/ Contains(value, <<"qcow2">>)
       \/ Contains(value, <<"raw">>)
       \/ Contains(value, <<"vmdk">>)

\* the test of VM.__init__ on one config entry
qualifies(key, value) ==
    /\ \/ Contains(key, <<"ide">>)
       \/ Contains(key, <<"sata">>)
       \/ Contains(key, <<"scsi">>)
    /\ \/ Contains(value, <<"qcow2">>)
       \/ Contains(value, <<"raw">>)
       \/ Contains(value, <<"vmdk">>)
    /\ ~Contains(value, <<"cdrom">>)

\* storage = Storage(storage_name, config); storage.add_vm_disk(storage_disk)
Binding(storage_name, storage_disk) ==
    [storage |-> storage_name,
     volume_name |-> export_volume_name(storage_name),
     access |-> access_key(storage_name),
     disk |-> storage_disk]

\* a mapper that keeps one Storage per backend name and lets add_vm_disk
\* overwrite its disk
RECURSIVE map_disks_grouped(_, _)
map_disks_grouped(config, storages) ==
    IF config = <<>> THEN [exc |-> "", storages |-> storages]
    ELSE LET key == Head(config)[1]
             value == Head(config)[2]
             parts == split(value, ":")
         IN  IF ~qualifies(key, value) THEN map_disks_grouped(Tail(config), storages)
             ELSE IF Len(parts) < 2 THEN [exc |-> "IndexError", storages |-> storages]
             ELSE LET storage_name == parts[1]
                      storage_disk == split(parts[2], ",")[1]
                      known == {i \in 1..Len(storages) :
                                   storages[i].storage = storage_name}
                  IN  IF Storage_init_exc(storage_name) # ""
                      THEN [exc |-> Storage_init_exc(storage_name),
                            storages |-> storages]
                      ELSE map_disks_grouped(Tail(config),
                             IF known = {}
                             THEN Append(storages, Binding(storage_name, storage_disk))
                             ELSE [i \in 1..Len(storages) |->
                                     IF i \in known
                                     THEN Binding(storage_name, storage_disk)
                                     ELSE storages[i]])

\* the loop over self.config.items(): the exception it ends with ("" when it
\* completes) and self.storages
RECURSIVE map_disks(_, _)
map_disks(config, storages) ==
    IF config = <<>> THEN [exc |-> "", storages |-> storages]
    ELSE LET key == Head(config)[1]
             value == Head(config)[2]
             parts == split(value, ":")
         IN  IF ~qualifies(key, value) THEN map_disks(Tail(config), storages)
             ELSE IF Len(parts) < 2 THEN [exc |-> "IndexError", storages |-> storages]
             ELSE LET storage_name == parts[1]
                      storage_disk == split(parts[2], ",")[1]
                  IN  IF Storage_init_exc(storage_name) # ""
                      THEN [exc |-> Storage_init_exc(storage_name),
                            storages |-> storages]
                      ELSE map_disks(Tail(config),
                               Append(storages, Binding(storage_name, storage_disk)))

\* a create that clones first and quiesces afterwards
create_next_clone_first(s, stage) ==
    CASE stage = "init" -> "clone"
      [] stage = "clone" ->
           IF s.suspend THEN "suspend.post"
           ELSE IF s.shutdown THEN "shutdown.post" ELSE "done"
      [] stage = "suspend" -> IF s.shutdown THEN "shutdown.post" ELSE "start.post"
      [] stage = "shutdown" -> "start.post"
      [] stage = "start" -> "done"

\* a create that starts the VM after the loop whatever was requested
create_next_always_start(s, stage) ==
    CASE stage = "init" ->
           IF s.suspend THEN "suspend.post"
           ELSE IF s.shutdown THEN "shutdown.post" ELSE "clone"
      [] stage = "suspend" -> IF s.shutdown THEN "shutdown.post" ELSE "clone"
      [] stage = "shutdown" -> "clone"
      [] stage = "clone" -> "start.post"
      [] stage = "start" -> "done"

\* the step of VM.create that follows a stage of it
create_next(s, stage) ==
    CASE stage = "init" ->
           IF s.suspend THEN "suspend.post"
           ELSE IF s.shutdown THEN "shutdown.post" ELSE "clone"
      [] stage = "suspend" -> IF s.shutdown THEN "shutdown.post" ELSE "clone"
      [] stage = "shutdown" -> "clone"
      [] stage = "clone" -> IF s.suspend \/ s.shutdown THEN "start.post" ELSE "done"
      [] stage = "start" -> "done"

\* the invocation goes on at pc, or has returned
Goto(s, pc) == IF pc = "done" THEN Done(s) ELSE [s EXCEPT !.pc = pc]

BeginVM(p, variantArg, config, suspend, shutdown) ==
    /\ proc[p].pc = "idle"
    /\ runs < MaxRuns
    /\ runs' = runs + 1
    /\ Step(p, [Idle EXCEPT !.pc = "VM_init", !.cmd = "vm create",
                            !.variant = variantArg, !.config = config,
                            !.suspend = suspend, !.shutdown = shutdown])
    /\ UNCHANGED <<pveStorage, volumes, vmStatus, clock, hist>>

VM_init(p) ==
    /\ proc[p].pc = "VM_init"
    /\ \E r \in {"ok", "ConnectionError", "not found"} :
         LET s == proc[p]
             m == map_disks(s.config, <<>>)
         IN  IF r = "ConnectionError" THEN Step(p, Exit(s, r))
             ELSE IF r = "not found" THEN Step(p, Exit(s, "AttributeError"))
             ELSE IF m.exc # "" THEN Step(p, Exit(s, m.exc))
             ELSE Step(p, Goto([s EXCEPT !.status = vmStatus,
                                         !.storages = m.storages],
                               create_next(s, "init")))
    /\ UNCHANGED <<pveStorage, volumes, vmStatus, runs, clock, hist>>

(***************************************************************************)
(* VM.shutdown, VM.suspend, VM.start                                       *)
(***************************************************************************)
\* an except clause that catches everything and lets the method return
on_lifecycle_error_swallowed(variantArg, exc) == "continue"

\* what the except clause of the three methods does with an exception
\* raised in the try block: "sys.exit" when it catches it, "traceback"
\* when it does not and the interpreter ends the process
on_lifecycle_error(variantArg, exc) ==
    IF variantArg = "nfs"
    THEN IF exc = "ResourceException" THEN "sys.exit" ELSE "traceback"
    ELSE IF exc = "RecursionError" THEN "sys.exit" ELSE "traceback"

\* the invocation after an exception in the try block of a lifecycle method
LifecycleError(s, exc, stage) ==
    IF on_lifecycle_error(s.variant, exc) \in {"sys.exit", "traceback"}
    THEN Exit(s, exc)
    ELSE Goto([s EXCEPT !.exc = exc], create_next(s, stage))

\* every loop ends on 'running', as the loop of start does
terminal_status_running(kind) == "running"

\* the task status that ends the polling loop of a lifecycle method
terminal_status(kind) == IF kind = "start" THEN "running" ELSE "stopped"

\* whether the method re-reads self.status when its loop ends
refreshes_status(kind) == kind \in {"shutdown", "suspend"}

\* task = self.prox.nodes(self.node).qemu(self.id).status.<kind>.post()
LifecyclePost(p, kind) ==
    /\ proc[p].pc = kind \o ".post"
    /\ \E r \in PveOutcome :
         LET s == proc[p]
             logged == [s EXCEPT !.log = Append(@, Event(kind \o ".post", <<>>, <<>>))]
         IN  IF r # "ok" THEN Step(p, LifecycleError(logged, r, kind))
             ELSE Step(p, [logged EXCEPT !.pc = kind \o ".poll",
                                         !.task = "running", !.polls = 0])
    /\ UNCHANGED <<pveStorage, volumes, vmStatus, runs, clock, hist>>

\* one turn of the while True loop, up to sleep(1); the log keeps the first
\* MaxPolls polls and the one that ends the loop
LifecyclePoll(p, kind) ==
    /\ proc[p].pc = kind \o ".poll"
    /\ \E r \in PveOutcome :
         LET s == proc[p]
             status == s.task
             logged == IF s.polls < MaxPolls \/ status = terminal_status(kind)
                       THEN [s EXCEPT !.polls = @ + 1,
                                      !.log = Append(@, Event("task.poll", <<kind>>,
                                                              <<status>>))]
                       ELSE s
         IN  IF r # "ok" THEN Step(p, LifecycleError(logged, r, kind))
             ELSE IF status = terminal_status(kind)
             THEN Step(p, Goto([logged EXCEPT
                                  !.status = IF refreshes_status(kind)
                                             THEN vmStatus ELSE @],
                               create_next(s, kind)))
             ELSE Step(p, [logged EXCEPT !.pc = kind \o ".sleep"])
    /\ UNCHANGED <<pveStorage, volumes, vmStatus, runs, clock, hist>>

\* sleep(1): a second passes and the loop polls again
LifecycleSleep(p, kind) ==
    /\ proc[p].pc = kind \o ".sleep"
    /\ clock' = IF clock < MaxClock THEN clock + 1 ELSE clock
    /\ Step(p, [proc[p] EXCEPT !.pc = kind \o ".poll"])
    /\ UNCHANGED <<pveStorage, volumes, vmStatus, runs, hist>>

VM_shutdown_post(p) == LifecyclePost(p, "shutdown")
VM_shutdown_poll(p) == LifecyclePoll(p, "shutdown")
VM_suspend_post(p) == LifecyclePost(p, "suspend")
VM_suspend_poll(p) == LifecyclePoll(p, "suspend")
VM_start_post(p) == LifecyclePost(p, "start")
VM_start_poll(p) == LifecyclePoll(p, "start")
VM_shutdown_sleep(p) == LifecycleSleep(p, "shutdown")
VM_suspend_sleep(p) == LifecycleSleep(p, "suspend")
VM_start_sleep(p) == LifecycleSleep(p, "start")

\* the invocation is in the polling loop of a lifecycle method
Polling(s) ==
    s.pc \in {"shutdown.poll", "suspend.poll", "start.poll",
              "shutdown.sleep", "suspend.sleep", "start.sleep"}

\* the power state the task of the invocation brings the VM to: stopped by a
\* shutdown or a suspend to disk, running by a start
task_target(s) ==
    IF s.pc \in {"start.poll", "start.sleep"} THEN "running" ELSE "stopped"

\* the running task of the invocation changes the power state of the VM
TaskActs(p) ==
    /\ Polling(proc[p])
    /\ proc[p].task = "running"
    /\ vmStatus # task_target(proc[p])
    /\ vmStatus' = task_target(proc[p])
    /\ UNCHANGED <<pveStorage, volumes, runs, clock, proc, hist>>

\* the compute node ends the task of the invocation, done or failed: its
\* status is 'stopped' from now on
TaskFinish(p) ==
    /\ Polling(proc[p])
    /\ proc[p].task = "running"
    /\ Step(p, [proc[p] EXCEPT !.task = "stopped"])
    /\ UNCHANGED <<pveStorage, volumes, vmStatus, runs, clock, hist>>

(***************************************************************************)
(* VM.create                                                               *)
(***************************************************************************)
\* Python: s.rstrip(c)
RECURSIVE rstrip(_, _)
rstrip(s, c) ==
    IF s # <<>> /\ s[Len(s)] = c THEN rstrip(SubSeq(s, 1, Len(s) - 1), c) ELSE s

\* os.path.split(path): <<head, tail>>; the head loses its trailing slashes
\* unless it is made of slashes only
os_path_split(path) ==
    LET k == RFind(path, SLASH)
        head == SubSeq(path, 1, k)
    IN  << IF rstrip(head, SLASH) = <<>> THEN head ELSE rstrip(head, SLASH),
           SubSeq(path, k + 1, Len(path)) >>

\* os.path.splitext(filename): <<root, ext>>
os_path_splitext(filename) ==
    LET k == RFind(filename, ".")
    IN  IF k <= 1 \/ \A j \in 1..(k - 1) : filename[j] = "."
        THEN << filename, <<>> >>
        ELSE << SubSeq(filename, 1, k - 1), SubSeq(filename, k, Len(filename)) >>

\* a name that splits the filename at its first dot
snapshot_name_first_dot(filename, timestamp) ==
    LET stem == split(filename, ".")[1]
    IN  stem \o <<"-snapshot-">> \o timestamp
            \o SubSeq(filename, Len(stem) + 1, Len(filename))

\* f'{os.path.splitext(filename)[0]}-snapshot-{timestamp}{os.path.splitext(filename)[1]}'
snapshot_name(filename, timestamp) ==
    os_path_splitext(filename)[1] \o <<"-snapshot-">> \o timestamp
        \o os_path_splitext(filename)[2]

\* a source path without the images/ directory
source_path_bare(disk) == disk

\* 'source_path': f'images/{storage.disk}'
source_path(disk) == IMAGES \o disk

\* 'destination_path': f'images/{vm_dir}/{snapshot_name}'
destination_path(disk, timestamp) ==
    IMAGES \o os_path_split(disk)[1] \o <<SLASH>>
        \o snapshot_name(os_path_split(disk)[2], timestamp)

\* a test the wrong way round
warns_if_stopped(status) == status = "stopped"

\* if self.status != 'stopped': logging.warning(...)
warns(status) == status # "stopped"

\* the warning of line 128 and the timestamp of the operation
VM_create(p) ==
    /\ proc[p].pc = "clone"
    /\ LET s == proc[p]
           t == [s EXCEPT !.warned = warns(s.status),
                          !.timestamp = strftime(clock), !.i = 1]
       IN  Step(p, IF s.storages = <<>> THEN Goto(t, create_next(s, "clone"))
                   ELSE [t EXCEPT !.pc = "get_volume"])
    /\ UNCHANGED <<pveStorage, volumes, vmStatus, runs, clock, hist>>

\* a create that starts the VM again when a lookup or a clone failed, as a
\* finally clause would
on_clone_error_restart(s, exc) ==
    IF s.suspend \/ s.shutdown
    THEN [s EXCEPT !.pc = "start.post", !.exc = exc]
    ELSE Exit(s, exc)

\* an exception in the loop over self.storages: nothing in VM.create
\* catches it and the process ends
on_clone_error(s, exc) == Exit(s, exc)

\* volume = get_volume(storage.volume_name, storage.access)
VM_create_get_volume(p) ==
    /\ proc[p].pc = "get_volume"
    /\ \E r \in OntapOutcome \ {"NetAppRestError"} :
         LET s == proc[p]
             volume == get_volume(s.storages[s.i].volume_name)
         IN  IF r # "ok" THEN Step(p, on_clone_error(s, r))
             ELSE IF volume = None THEN Step(p, on_clone_error(s, "AttributeError"))
             ELSE Step(p, [s EXCEPT !.pc = "fileclone.post", !.volume = volume])
    /\ UNCHANGED <<pveStorage, volumes, vmStatus, runs, clock, hist>>

\* a request body that allows overwriting
overwrite_destination_allowed == TRUE

\* 'overwrite_destination': False
overwrite_destination == FALSE

\* the storage controller takes the file clone: the source exists and the
\* destination does not, unless the request allows overwriting it
fileclone_accepted(volume, src, dst, overwrite) ==
    /\ volume \in DOMAIN volumes
    /\ src \in DOMAIN volumes[volume].files
    /\ dst \in DOMAIN volumes[volume].files => overwrite

\* a create that reads the time again for every disk
request_timestamp_per_disk(s, now) == strftime(now)

\* the timestamp a request body embeds: the local variable set before the
\* loop, whatever the time now
request_timestamp(s, now) == s.timestamp

\* file_clone.post()
VM_create_file_clone(p) ==
    /\ proc[p].pc = "fileclone.post"
    /\ \E r \in OntapOutcome :
         LET s == proc[p]
             disk == s.storages[s.i].disk
             src == source_path(disk)
             dst == destination_path(disk, request_timestamp(s, clock))
             request == Event("fileclone.post", src, dst)
                           @@ [overwrite_destination |-> overwrite_destination]
             logged == [s EXCEPT !.log = Append(@, request)]
             exc == IF r # "ok" THEN r
                    ELSE IF ~fileclone_accepted(s.volume, src, dst,
                                                request.overwrite_destination)
                    THEN "NetAppRestError" ELSE ""
         IN  IF exc # ""
             THEN Step(p, on_clone_error(logged, exc)) /\ UNCHANGED volumes
             ELSE /\ volumes' = [volumes EXCEPT ![s.volume].files =
                                      Put(@, dst, @[src])]
                  /\ Step(p, IF s.i < Len(s.storages)
                             THEN [logged EXCEPT !.pc = "get_volume", !.i = @ + 1]
                             ELSE Goto(logged, create_next(s, "clone")))
    /\ UNCHANGED <<pveStorage, vmStatus, runs, clock, hist>>

(***************************************************************************)
(* Environment                                                             *)
(***************************************************************************)
Tick ==
    /\ clock < MaxClock
    /\ clock' = clock + 1
    /\ UNCHANGED <<pveStorage, volumes, vmStatus, runs, proc, hist>>

(***************************************************************************)
(* Specification                                                           *)
(***************************************************************************)
Init ==
    /\ pveStorage = InitStorage
    /\ volumes = InitVolumes
    /\ vmStatus = "running"
    /\ runs = 0
    /\ clock = 0
    /\ proc = [p \in Procs |-> Idle]
    /\ hist = NoHist

Next ==
    \/ \E p \in Procs, cmd \in StorageCmds, st \in StorageArgs, sn \in SnapshotArgs :
           Begin(p, cmd, st, sn)
    \/ \E p \in Procs : Terminate(p)
    \/ \E p \in Procs : Storage_init(p)
    \/ \E p \in Procs : Storage_unmount(p)
    \/ \E p \in Procs : Storage_unmount_pve_delete(p)
    \/ \E p \in Procs : Storage_unmount_vol_delete(p)
    \/ \E p \in Procs : Storage_mount(p)
    \/ \E p \in Procs : Storage_mount_vol_post(p)
    \/ \E p \in Procs : Storage_mount_pve_get(p)
    \/ \E p \in Procs : Storage_mount_pve_post(p)
    \/ \E p \in Procs : Storage_list(p)
    \/ \E p \in Procs : Storage_create(p)
    \/ \E p \in Procs : Storage_create_post(p)
    \/ \E p \in Procs : Storage_delete(p)
    \/ \E p \in Procs : Storage_restore(p)
    \/ \E p \in Procs : Storage_show(p)
    \/ Tick

Spec == Init /\ [][Next]_vars

\* the VM context: vm create
NextVM ==
    \/ \E p \in Procs, v \in {"main", "nfs"}, c \in VMConfigs,
          su \in BOOLEAN, sh \in BOOLEAN : BeginVM(p, v, c, su, sh)
    \/ \E p \in Procs : Terminate(p)
    \/ \E p \in Procs : VM_init(p)
    \/ \E p \in Procs : VM_suspend_post(p)
    \/ \E p \in Procs : VM_suspend_poll(p)
    \/ \E p \in Procs : VM_shutdown_post(p)
    \/ \E p \in Procs : VM_shutdown_poll(p)
    \/ \E p \in Procs : VM_create(p)
    \/ \E p \in Procs : VM_create_get_volume(p)
    \/ \E p \in Procs : VM_create_file_clone(p)
    \/ \E p \in Procs : VM_start_post(p)
    \/ \E p \in Procs : VM_start_poll(p)
    \/ \E p \in Procs : VM_suspend_sleep(p)
    \/ \E p \in Procs : VM_shutdown_sleep(p)
    \/ \E p \in Procs : VM_start_sleep(p)
    \/ \E p \in Procs : TaskActs(p)
    \/ \E p \in Procs : TaskFinish(p)
    \/ Tick

\* the VM runs or is stopped when the first invocation starts
InitVM ==
    /\ pveStorage = InitStorage
    /\ volumes = InitVolumes
    /\ vmStatus \in {"running", "stopped"}
    /\ runs = 0
    /\ clock = 0
    /\ proc = [p \in Procs |-> Idle]
    /\ hist = NoHist

SpecVM == InitVM /\ [][NextVM]_vars

\* the commands that look up the backing volume, on storageA and on the
\* backend of its clone, all within one second; the VM one without suspend
\* and shutdown
NextLookup ==
    \/ \E p \in Procs, cmd \in {"create", "restore", "delete", "mount", "unmount"},
          st \in {storageA, clone_backend(storageA)}, sn \in {OldSnapshot} :
           Begin(p, cmd, st, sn)
    \/ \E p \in Procs : BeginVM(p, "main", ConfigCloneDisk, FALSE, FALSE)
    \/ \E p \in Procs : Terminate(p)
    \/ \E p \in Procs : Storage_init(p)
    \/ \E p \in Procs : Storage_unmount(p)
    \/ \E p \in Procs : Storage_unmount_pve_delete(p)
    \/ \E p \in Procs : Storage_unmount_vol_delete(p)
    \/ \E p \in Procs : Storage_mount(p)
    \/ \E p \in Procs : Storage_mount_vol_post(p)
    \/ \E p \in Procs : Storage_mount_pve_get(p)
    \/ \E p \in Procs : Storage_mount_pve_post(p)
    \/ \E p \in Procs : Storage_create(p)
    \/ \E p \in Procs : Storage_create_post(p)
    \/ \E p \in Procs : Storage_delete(p)
    \/ \E p \in Procs : Storage_restore(p)
    \/ \E p \in Procs : VM_init(p)
    \/ \E p \in Procs : VM_create(p)
    \/ \E p \in Procs : VM_create_get_volume(p)
    \/ \E p \in Procs : VM_create_file_clone(p)

SpecLookup == Init /\ [][NextLookup]_vars

\* two invocations at a time: mount of storageA and unmount of its clone
\* backend, their requests interleaved
RaceProcs == {"p1", "p2"}

InitRace ==
    /\ pveStorage = InitStorage
    /\ volumes = InitVolumes
    /\ vmStatus = "running"
    /\ runs = 0
    /\ clock = 0
    /\ proc = [p \in RaceProcs |-> Idle]
    /\ hist = NoHist

NextRace ==
    \/ \E p \in RaceProcs : Begin(p, "mount", storageA, OldSnapshot)
    \/ \E p \in RaceProcs : Begin(p, "unmount", clone_backend(storageA), <<>>)
    \/ \E p \in RaceProcs : Terminate(p)
    \/ \E p \in RaceProcs : Storage_init(p)
    \/ \E p \in RaceProcs : Storage_unmount(p)
    \/ \E p \in RaceProcs : Storage_unmount_pve_delete(p)
    \/ \E p \in RaceProcs : Storage_unmount_vol_delete(p)
    \/ \E p \in RaceProcs : Storage_mount(p)
    \/ \E p \in RaceProcs : Storage_mount_vol_post(p)
    \/ \E p \in RaceProcs : Storage_mount_pve_get(p)
    \/ \E p \in RaceProcs : Storage_mount_pve_post(p)

SpecRace == InitRace /\ [][NextRace]_vars

\* a step of a polling loop: the process is never held up between a poll,
\* the sleep after it and the next poll
LoopStep ==
    \E p \in Procs :
        \/ VM_suspend_poll(p) \/ VM_shutdown_poll(p) \/ VM_start_poll(p)
        \/ VM_suspend_sleep(p) \/ VM_shutdown_sleep(p) \/ VM_start_sleep(p)

\* the VM context with a process that keeps running
SpecVMFair == InitVM /\ [][NextVM]_vars /\ WF_vars(LoopStep)

\* the create command of both contexts, the VM one without suspend and
\* shutdown
NextCreate ==
    \/ \E p \in Procs, st \in StorageArgs : Begin(p, "create", st, <<>>)
    \/ \E p \in Procs, v \in {"main", "nfs"}, c \in VMConfigs :
           BeginVM(p, v, c, FALSE, FALSE)
    \/ \E p \in Procs : Terminate(p)
    \/ \E p \in Procs : Storage_init(p)
    \/ \E p \in Procs : Storage_create(p)
    \/ \E p \in Procs : Storage_create_post(p)
    \/ \E p \in Procs : VM_init(p)
    \/ \E p \in Procs : VM_create(p)
    \/ \E p \in Procs : VM_create_get_volume(p)
    \/ \E p \in Procs : VM_create_file_clone(p)
    \/ Tick

SpecCreate == InitVM /\ [][NextCreate]_vars

(***************************************************************************)
(* Properties of the Storage context (specification Spec)                  *)
(***************************************************************************)
\* the requests of a kind in the log of an invocation
Requests(s, ops) == SelectSeq(s.log, LAMBDA e : e.op \in ops)

Deletions == {"pve.delete", "vol.delete"}

\* C1: an unmount whose resolved volume is not a clone ends with exit
\* status 1 and has issued no delete request: the backend is still
\* registered and the volume still exists.
C1_UnmountOfNonCloneFails ==
    \A p \in Procs :
        LET s == proc[p]
        IN  ( /\ s.cmd = "unmount"
              /\ s.pc \notin {"Storage_init", "unmount"}
              /\ s.volume_name \in DOMAIN volumes
              /\ ~volumes[s.volume_name].is_flexclone )
            => /\ s.pc = "exit"
               /\ s.exitCode = 1
               /\ Requests(s, Deletions) = <<>>
               /\ s.storage \in DOMAIN pveStorage

C1_Witness ==
    \E p \in Procs :
        /\ proc[p].cmd = "unmount"
        /\ proc[p].storage = storageA
        /\ proc[p].volume_name = <<"storageA_vol">>
        /\ proc[p].pc = "exit"
        /\ proc[p].exc = "sys.exit"

\* C2: in every state of an unmount, the request to delete the volume comes
\* after the request to delete the backend, and no registered backend
\* exports a volume the unmount has deleted.
C2_BackendGoesBeforeVolume ==
    \A p \in Procs :
        LET s == proc[p]
        IN  s.cmd = "unmount" =>
              \A i \in 1..Len(s.log) :
                 s.log[i].op = "vol.delete" =>
                    /\ \E j \in 1..(i - 1) :
                          /\ s.log[j].op = "pve.delete"
                          /\ s.log[j].a = s.storage
                    /\ s.storage \notin DOMAIN pveStorage
                    /\ s.log[i].a \notin DOMAIN volumes =>
                          \A b \in DOMAIN pveStorage :
                             export_volume_name(b) # s.log[i].a

C2_Witness ==
    \E p \in Procs :
        /\ proc[p].cmd = "unmount"
        /\ proc[p].pc = "exit"
        /\ Len(proc[p].log) = 2
        /\ proc[p].log[2].op = "vol.delete"
        /\ proc[p].log[2].a \in DOMAIN volumes
        /\ proc[p].storage \notin DOMAIN pveStorage

\* C3: between invocations, every registered backend named <backend>-CLONE
\* exports a volume that exists on the storage controller.
C3_CloneBackendHasItsVolume ==
    (\A p \in Procs : ~Running(p)) =>
        \A b \in DOMAIN pveStorage :
            EndsWith(b, CLONE_SUFFIX) => export_volume_name(b) \in DOMAIN volumes

\* the state C4 starts from: the backend exports a volume that has the
\* snapshot, and neither the clone volume nor the clone backend exists
C4_Precondition ==
    /\ hist.storage \in DOMAIN hist.pve0
    /\ LET V == strip(hist.pve0[hist.storage].export, SLASH)
       IN  /\ V \in DOMAIN hist.vols0
           /\ hist.snapshot \in hist.vols0[V].snaps
           /\ clone_name(V) \notin DOMAIN hist.vols0
    /\ clone_backend(hist.storage) \notin DOMAIN hist.pve0

\* C4: a successful mount(B, S) followed by a successful unmount(B-CLONE)
\* leaves the backends and the volumes as they were; the unmount took its
\* access bundle under key B, resolved <volume>_clone, and deleted the
\* backend and then the volume.
C4_MountUnmountRoundTrip ==
    \A p \in Procs :
        LET s == proc[p]
        IN  ( /\ hist.stage = "unmount"
              /\ s.cmd = "unmount"
              /\ s.pc = "done"
              /\ C4_Precondition )
            => /\ pveStorage = hist.pve0
               /\ volumes = hist.vols0
               /\ s.access = hist.storage
               /\ s.volume_name =
                     clone_name(strip(hist.pve0[hist.storage].export, SLASH))
               /\ s.log = << Event("pve.delete", clone_backend(hist.storage), <<>>),
                             Event("vol.delete", s.volume_name, <<>>) >>

C4_Witness ==
    \E p \in Procs :
        /\ hist.stage = "unmount"
        /\ hist.storage = storageA
        /\ hist.snapshot = OldSnapshot
        /\ C4_Precondition
        /\ proc[p].cmd = "unmount"
        /\ proc[p].storage = storageA \o CLONE_SUFFIX
        /\ proc[p].pc = "done"

\* C10: Storage list prints exactly the snapshots of the volume whose name
\* starts with proxmox_snapshot_.
C10_ListPrintsPrefixedOnly ==
    \A p \in Procs :
        LET s == proc[p]
        IN  (s.cmd = "list" /\ s.pc = "done") =>
               s.out = {n \in volumes[s.volume].snaps : StartsWith(n, SNAPSHOT_PREFIX)}

(***************************************************************************)
(* Properties of the VM context (specification SpecVM)                     *)
(***************************************************************************)
\* the test the spec states for a config entry: a disk key, a disk image
\* format, not a CD-ROM
Eligible(e) ==
    /\ \E k \in {"ide", "sata", "scsi"} : \E i \in 1..Len(e[1]) : e[1][i] = k
    /\ \E f \in {"qcow2", "raw", "vmdk"} : \E i \in 1..Len(e[2]) : e[2][i] = f
    /\ \A i \in 1..Len(e[2]) : e[2][i] # "cdrom"

\* the index of the first c in s at or after position i, Len(s) + 1 when
\* there is none
FirstAt(s, c, i) ==
    IF \A j \in i..Len(s) : s[j] # c THEN Len(s) + 1
    ELSE CHOOSE j \in i..Len(s) : s[j] = c /\ \A k \in i..(j - 1) : s[k] # c

\* the backend name of an eligible entry: what precedes the first colon of
\* its value; its disk path: what follows, up to the first comma
EntryBackend(e) == SubSeq(e[2], 1, FirstAt(e[2], ":", 1) - 1)
EntryDisk(e) ==
    SubSeq(e[2], FirstAt(e[2], ":", 1) + 1,
           FirstAt(e[2], ",", FirstAt(e[2], ":", 1) + 1) - 1)

\* the eligible entries of the config an invocation read, in order
EligibleEntries(s) == SelectSeq(s.config, Eligible)

\* VM.__init__ has returned
Constructed(s) == s.cmd = "vm create" /\ s.status # ""

FileClones(s) == Requests(s, {"fileclone.post"})

\* the loop over self.storages has ended
Cloned(s) ==
    Constructed(s) /\ s.timestamp # <<>>
       /\ s.pc \in {"start.post", "start.poll", "done"}

\* C6: every eligible disk path is in exactly one binding; the file-clone
\* requests issued so far are one per eligible entry, in order, each with
\* source images/<disk path>, and when the loop has ended there is exactly
\* one request per eligible disk path and none for any other entry.
C6_OneFileClonePerDisk ==
    \A p \in Procs :
        LET s == proc[p]
            q == EligibleEntries(s)
            c == FileClones(s)
        IN  Constructed(s) =>
              /\ \A i \in 1..Len(q) :
                    Cardinality({j \in 1..Len(s.storages) :
                                    s.storages[j].disk = EntryDisk(q[i])}) = 1
              /\ Len(c) <= Len(q)
              /\ \A i \in 1..Len(c) : c[i].a = <<"images", "/">> \o EntryDisk(q[i])
              /\ Cloned(s) => Len(c) = Len(q)

C6_Witness ==
    \E p \in Procs :
        /\ Cloned(proc[p])
        /\ proc[p].config = ConfigTwoDisksOneStorage
        /\ Len(FileClones(proc[p])) = 2
        /\ proc[p].pc = "done"

\* the positions in the log of the requests of a kind
Positions(s, ops) == {i \in 1..Len(s.log) : s.log[i].op \in ops}

\* the positions of the requests and polls of a lifecycle method
LifecyclePositions(s, kind) ==
    {i \in 1..Len(s.log) :
        \/ s.log[i].op = kind \o ".post"
        \/ s.log[i].op = "task.poll" /\ s.log[i].a = <<kind>>}

\* the lifecycle method was called and its loop saw the status that ends it
Returned(s, kind, status) ==
    \E i \in LifecyclePositions(s, kind) :
        /\ s.log[i].op = "task.poll"
        /\ s.log[i].b = <<status>>

\* C7: with suspend or shutdown requested, every file-clone request comes
\* after the requested method has returned, and start is requested only
\* after the last file-clone request has been answered.
C7_QuiesceCloneRestart ==
    \A p \in Procs :
        LET s == proc[p]
            clones == Positions(s, {"fileclone.post"})
        IN  Constructed(s) =>
              /\ \A kind \in {"suspend", "shutdown"} :
                    (s[kind] /\ clones # {}) =>
                       /\ Returned(s, kind, "stopped")
                       /\ \A i \in LifecyclePositions(s, kind), j \in clones : i < j
              /\ \A i \in LifecyclePositions(s, "start") :
                    /\ s.suspend \/ s.shutdown
                    /\ Cardinality(clones) = Len(s.storages)
                    /\ \A j \in clones : j < i
                    /\ \A kind \in {"suspend", "shutdown"} :
                          s[kind] => Returned(s, kind, "stopped")

C7_Witness ==
    \E p \in Procs :
        /\ Constructed(proc[p])
        /\ proc[p].suspend /\ proc[p].shutdown
        /\ Len(FileClones(proc[p])) = 2
        /\ proc[p].pc = "done"

\* the statuses the polls of shutdown have read
ShutdownPolls(s) ==
    SelectSeq(s.log, LAMBDA e : e.op = "task.poll" /\ e.a = <<"shutdown">>)

\* shutdown was called and has returned
ShutdownReturned(s) ==
    /\ Constructed(s) /\ s.shutdown
    /\ Positions(s, {"shutdown.post"}) # {}
    /\ s.pc = "clone" \/ s.timestamp # <<>>

\* C8: while shutdown polls, no poll has read 'stopped'; when it has
\* returned, its last poll read 'stopped' and every poll before it read
\* 'running': after 'running', 'running', 'stopped' it has polled three
\* times.
C8_ShutdownReturnsOnFirstStopped ==
    \A p \in Procs :
        LET s == proc[p]
            polls == ShutdownPolls(s)
        IN  /\ s.pc = "shutdown.poll" =>
                  \A i \in 1..Len(polls) : polls[i].b = <<"running">>
            /\ ShutdownReturned(s) =>
                  /\ polls # <<>>
                  /\ polls[Len(polls)].b = <<"stopped">>
                  /\ \A i \in 1..(Len(polls) - 1) : polls[i].b = <<"running">>

C8_Witness ==
    \E p \in Procs :
        /\ ShutdownReturned(proc[p])
        /\ Len(ShutdownPolls(proc[p])) = 3
        /\ ShutdownPolls(proc[p])[1].b = <<"running">>
        /\ ShutdownPolls(proc[p])[2].b = <<"running">>
        /\ ShutdownPolls(proc[p])[3].b = <<"stopped">>

LifecycleOps ==
    {"shutdown.post", "suspend.post", "start.post", "task.poll"}

\* the compute node raised an error at the last lifecycle request or poll
LifecycleFailed(s) ==
    /\ Constructed(s)
    /\ s.exc \in {"ResourceException", "ConnectionError"}
    /\ s.log # <<>>
    /\ s.log[Len(s.log)].op \in LifecycleOps

\* C9: after an error of the compute node in shutdown, suspend or start the
\* process has ended with exit status 1; after a failed suspend or shutdown
\* no file-clone request has been issued.
C9_LifecycleErrorIsFatal ==
    \A p \in Procs :
        LET s == proc[p]
        IN  LifecycleFailed(s) =>
              /\ s.pc = "exit"
              /\ s.exitCode = 1
              /\ Positions(s, {"start.post"}) = {} => FileClones(s) = <<>>

C9_Witness ==
    \E p \in Procs :
        /\ LifecycleFailed(proc[p])
        /\ proc[p].variant = "main"
        /\ proc[p].exc = "ResourceException"
        /\ proc[p].log[Len(proc[p].log)].a = <<"shutdown">>
        /\ proc[p].pc = "exit"

\* the timestamp a destination path embeds: what follows -snapshot-
EmbeddedTimestamp(dst) == <<dst[FirstAt(dst, "-snapshot-", 1) + 1]>>

\* C11: the file-clone requests of one create all embed the same timestamp,
\* the one read when the loop was entered (after suspend and shutdown have
\* returned, before the first request), whatever the clock shows when a
\* request is issued.
C11_OneTimestampPerCreate ==
    \A p \in Procs :
        LET s == proc[p]
            c == FileClones(s)
        IN  /\ \A i \in 1..Len(c) : EmbeddedTimestamp(c[i].b) = s.timestamp
            /\ \A i \in 1..Len(c), j \in 1..Len(c) :
                   EmbeddedTimestamp(c[i].b) = EmbeddedTimestamp(c[j].b)
            /\ c # <<>> =>
                   \A kind \in {"suspend", "shutdown"} :
                      s[kind] => Returned(s, kind, "stopped")

\* two requests, the second issued after the clock moved on
C11_Witness ==
    \E p \in Procs :
        /\ Len(FileClones(proc[p])) = 2
        /\ proc[p].shutdown
        /\ strftime(clock) # proc[p].timestamp
        /\ EmbeddedTimestamp(FileClones(proc[p])[2].b) = proc[p].timestamp

\* the destination the spec documents for a disk path at a timestamp:
\* images/<directory>/<stem>-snapshot-<timestamp><ext>, and
\* images/<stem>-snapshot-<timestamp><ext> for a path without a directory
DocumentedDestination(disk, timestamp) ==
    LET k == RFind(disk, SLASH)
        dir == SubSeq(disk, 1, k - 1)
        filename == SubSeq(disk, k + 1, Len(disk))
        d == RFind(filename, ".")
        stem == IF d = 0 THEN filename ELSE SubSeq(filename, 1, d - 1)
        ext == IF d = 0 THEN <<>> ELSE SubSeq(filename, d, Len(filename))
        name == stem \o <<"-snapshot-">> \o timestamp \o ext
    IN  IF k = 0 THEN <<"images", "/">> \o name
        ELSE <<"images", "/">> \o dir \o <<"/">> \o name

\* C12: the i-th file-clone request of a create at timestamp T has the
\* documented destination of the i-th eligible disk path; for the disks
\* vm-100-disk-0.qcow2 and vm-100-disk-1.qcow2 on storageA these are
\* images/vm-100-disk-0-snapshot-T.qcow2 and
\* images/vm-100-disk-1-snapshot-T.qcow2.
C12_DocumentedDestinations ==
    \A p \in Procs :
        LET s == proc[p]
            q == EligibleEntries(s)
            c == FileClones(s)
        IN  \A i \in 1..Len(c) :
               c[i].b = DocumentedDestination(EntryDisk(q[i]), s.timestamp)

(***************************************************************************)
(* Further properties of the Storage context (specification Spec)          *)
(***************************************************************************)
\* the lookup key the spec states for a backend name
DocumentedKey(name) ==
    IF name # <<>> /\ name[Len(name)] = "-CLONE"
    THEN SubSeq(name, 1, Len(name) - 1) ELSE name

\* Storage.__init__ has returned
StorageConstructed(s) ==
    s.cmd \in StorageCmds /\ s.pc \notin {"idle", "Storage_init"}
       /\ s.volume_name # <<>>

\* C13: a constructed Storage holds the access bundle of the section named
\* by its backend name without one trailing -CLONE, or by the name itself
\* when it does not end in -CLONE; construction fails with KeyError exactly
\* when that section is missing.
C13_AccessKeyDropsOneSuffix ==
    \A p \in Procs :
        LET s == proc[p]
        IN  /\ StorageConstructed(s) =>
                  /\ s.access = DocumentedKey(s.storage)
                  /\ s.access \in ConfigSections
            /\ (s.cmd \in StorageCmds /\ s.exc = "KeyError") =>
                  DocumentedKey(s.storage) \notin ConfigSections

\* a Storage constructed for the clone backend of storageA
C13_Witness ==
    \E p \in Procs :
        /\ StorageConstructed(proc[p])
        /\ proc[p].storage = <<"storageA", "-CLONE">>
        /\ proc[p].access = <<"storageA">>

\* C14: a Storage delete on an existing volume changes nothing but that
\* volume's snapshot set and removes from it at most the snapshot with
\* exactly the given name; when no snapshot has that name, nothing changes,
\* no delete request is issued and, the controller being reachable, the
\* operation returns with exit status 0; when one has and the operation
\* returns, exactly that snapshot is gone.
C14_DeleteOnlyTheNamedSnapshot ==
    [][\A p \in Procs :
          LET s == proc[p]
              t == proc'[p]
              v == s.volume_name
          IN  (s.pc = "delete" /\ t.pc # "delete" /\ v \in DOMAIN volumes) =>
                /\ DOMAIN volumes' = DOMAIN volumes
                /\ \A w \in DOMAIN volumes :
                      /\ w # v => volumes'[w] = volumes[w]
                      /\ volumes'[w].files = volumes[w].files
                /\ volumes'[v].snaps \subseteq volumes[v].snaps
                /\ volumes[v].snaps \ volumes'[v].snaps \subseteq {s.snapshot}
                /\ s.snapshot \notin volumes[v].snaps =>
                      /\ volumes' = volumes
                      /\ Requests(t, {"snap.delete"}) = <<>>
                      /\ t.exc # "ConnectionError" => t.pc = "done" /\ t.exitCode = 0
                /\ (s.snapshot \in volumes[v].snaps /\ t.pc = "done") =>
                      volumes'[v].snaps = volumes[v].snaps \ {s.snapshot}
      ]_vars

\* a delete of a name no snapshot has, returned without an error, and the
\* volume still has its three snapshots
C14_Witness ==
    \E p \in Procs :
        /\ proc[p].cmd = "delete"
        /\ proc[p].storage = storageA
        /\ proc[p].snapshot = <<"nosuch">>
        /\ proc[p].pc = "done" /\ proc[p].exitCode = 0
        /\ {OldSnapshot, ForeignSnapshot, ManualSnapshot}
               \subseteq volumes[<<"storageA_vol">>].snaps

(***************************************************************************)
(* Further properties of the VM context (specification SpecVM)             *)
(***************************************************************************)
\* the step issues a file-clone request
IssuesFileClone(s, t) ==
    /\ s.pc = "fileclone.post"
    /\ Len(t.log) = Len(s.log) + 1
    /\ t.log[Len(t.log)].op = "fileclone.post"

\* C15: every file-clone request carries overwrite_destination = false; no
\* step of a vm create removes a file or changes the data of one; a request
\* whose destination exists fails, the process ends and the volumes are as
\* they were.
C15_NeverOverwrites ==
    [][\A p \in Procs :
          LET s == proc[p]
              t == proc'[p]
              e == t.log[Len(t.log)]
          IN  /\ \A w \in DOMAIN volumes :
                    /\ w \in DOMAIN volumes'
                    /\ \A f \in DOMAIN volumes[w].files :
                          /\ f \in DOMAIN volumes'[w].files
                          /\ volumes'[w].files[f] = volumes[w].files[f]
              /\ IssuesFileClone(s, t) =>
                    /\ e.overwrite_destination = FALSE
                    /\ e.b \in DOMAIN volumes[s.volume].files =>
                          /\ t.pc = "exit" /\ t.exitCode = 1
                          /\ t.exc \in {"NetAppRestError", "ConnectionError"}
                          /\ volumes' = volumes
      ]_vars

\* the controller has refused the clone of DiskB0 onto the file an earlier
\* create left, and that file holds what it held
C15_Witness ==
    \E p \in Procs :
        /\ proc[p].pc = "exit"
        /\ proc[p].exc = "NetAppRestError"
        /\ FileClones(proc[p]) # <<>>
        /\ proc[p].log[Len(proc[p].log)].op = "fileclone.post"
        /\ proc[p].log[Len(proc[p].log)].b = OldDiskSnapshot
        /\ volumes[<<"storageB_vol">>].files[OldDiskSnapshot] = "then"

\* an eligible entry whose value lacks the delimiters: no colon, or nothing
\* between the colon and the first comma
Malformed(e) ==
    /\ Eligible(e)
    /\ \/ FirstAt(e[2], ":", 1) > Len(e[2])
       \/ EntryDisk(e) = <<>>

\* C16: a VM whose config holds a malformed disk entry is never constructed,
\* and no binding ever holds an empty disk path.
C16_MalformedEntryFails ==
    \A p \in Procs :
        LET s == proc[p]
        IN  /\ (\E i \in 1..Len(s.config) : Malformed(s.config[i])) =>
                  ~Constructed(s) /\ s.pc \in {"VM_init", "exit"}
            /\ \A i \in 1..Len(s.storages) : s.storages[i].disk # <<>>

\* the number of eligible entries among the first i of a config
EligibleUpTo(config, i) ==
    Cardinality({j \in 1..i : Eligible(config[j])})

\* C17: a constructed VM has one binding for each config entry whose key
\* contains ide, sata or scsi and whose value contains qcow2, raw or vmdk
\* and does not contain cdrom, and none for any other entry: the k-th
\* eligible entry is the k-th binding and there are no further bindings.
C17_MappedIffEligible ==
    \A p \in Procs :
        LET s == proc[p]
        IN  Constructed(s) =>
              /\ Len(s.storages) = EligibleUpTo(s.config, Len(s.config))
              /\ \A i \in 1..Len(s.config) :
                    Eligible(s.config[i]) =>
                       LET b == s.storages[EligibleUpTo(s.config, i)]
                       IN  /\ b.storage = EntryBackend(s.config[i])
                           /\ b.disk = EntryDisk(s.config[i])
              /\ \A j \in 1..Len(s.storages) :
                    \E i \in 1..Len(s.config) :
                       /\ Eligible(s.config[i])
                       /\ EligibleUpTo(s.config, i) = j

\* the config with a cloud-init CD-ROM on a qcow2 image, a virtio disk, a
\* scsihw entry and two eligible disks has been mapped to two bindings
C17_Witness ==
    \E p \in Procs :
        /\ Constructed(proc[p])
        /\ proc[p].config = ConfigMixed
        /\ Len(proc[p].storages) = 2
        /\ proc[p].storages[1].disk = DiskA2
        /\ proc[p].storages[2].disk = DiskB0

(***************************************************************************)
(* Properties of the create commands (specification SpecCreate)            *)
(***************************************************************************)
\* the last component of a path
FileName(path) == SubSeq(path, RFind(path, SLASH) + 1, Len(path))

\* the documented disk-level name: <stem>-snapshot-<timestamp><ext>, the
\* filename split at its last dot
DocumentedDiskName(filename, timestamp) ==
    LET d == RFind(filename, ".")
    IN  IF d = 0 THEN filename \o <<"-snapshot-", timestamp[1]>>
        ELSE SubSeq(filename, 1, d - 1) \o <<"-snapshot-", timestamp[1]>>
                \o SubSeq(filename, d, Len(filename))

\* the snapshot requests of an invocation
SnapshotPosts(s) == Requests(s, {"snap.post"})

\* C18: the names depend on the filename and the timestamp only: the i-th
\* file-clone request of a vm create names its destination file
\* <stem>-snapshot-<timestamp><ext> for the filename of the i-th disk and
\* the timestamp of the create, and a storage create requests the snapshot
\* proxmox_snapshot_<timestamp> for its timestamp.
C18_NamesFollowThePattern ==
    \A p \in Procs :
        LET s == proc[p]
            c == FileClones(s)
            n == SnapshotPosts(s)
        IN  /\ \A i \in 1..Len(c) :
                  /\ Len(s.timestamp) = 1
                  /\ FileName(c[i].b) =
                        DocumentedDiskName(FileName(s.storages[i].disk), s.timestamp)
            /\ \A i \in 1..Len(n) :
                  /\ Len(s.timestamp) = 1
                  /\ n[i].b = <<"proxmox_snapshot_", s.timestamp[1]>>

\* a vm create has requested the clone of the disk with two dots in its
\* name, on a system where a storage create made a snapshot in second 0
C18_Witness ==
    \E p \in Procs :
        /\ Len(FileClones(proc[p])) = 2
        /\ proc[p].storages[2].disk = DiskB0
        /\ FileName(FileClones(proc[p])[2].b) =
              <<"vm-100-disk-1", ".", "v2", "-snapshot-", "1", ".", "raw">>
        /\ <<"proxmox_snapshot_", "0">> \in volumes[<<"storageA_vol">>].snaps

(***************************************************************************)
(* Mount after a rejected clone (specification Spec)                       *)
(***************************************************************************)
\* C19: when the controller rejects the clone request of a mount, the mount
\* goes on with exit status 0 so far and no volume changed; it then reads
\* the backend it was given and requests the registration of
\* <backend>-CLONE with export /<volume>_clone, and a registration that
\* succeeds carries the server, type and content of the original backend.
C19_MountGoesOnAfterRejection ==
    [][\A p \in Procs :
          LET s == proc[p]
              t == proc'[p]
          IN  s.cmd = "mount" =>
                /\ (s.pc = "vol.post" /\ t.exc = "NetAppRestError") =>
                      /\ t.pc = "pve.get" /\ t.exitCode = 0
                      /\ ~t.cloneOk
                      /\ volumes' = volumes
                /\ (s.pc = "pve.get" /\ t.pc = "pve.post") =>
                      t.store = pveStorage[s.storage]
                /\ (s.pc = "pve.post" /\ t.pc # "pve.post") =>
                      /\ t.log[Len(t.log)] =
                            [op |-> "pve.post",
                             a |-> s.storage \o <<"-CLONE">>,
                             b |-> <<"/">> \o s.volume_name \o <<"_clone">>]
                      /\ t.pc = "done" =>
                            pveStorage'[s.storage \o <<"-CLONE">>] =
                               [export |-> <<"/">> \o s.volume_name \o <<"_clone">>,
                                server |-> pveStorage[s.storage].server,
                                type |-> pveStorage[s.storage].type,
                                content |-> pveStorage[s.storage].content]
      ]_vars

\* a mount whose clone request was rejected because storageA_vol_clone was
\* still there has registered storageA-CLONE and returned
C19_Witness ==
    \E p \in Procs :
        /\ proc[p].cmd = "mount" /\ proc[p].storage = storageA
        /\ proc[p].pc = "done" /\ proc[p].exitCode = 0
        /\ proc[p].exc = "NetAppRestError" /\ ~proc[p].cloneOk
        /\ Requests(proc[p], {"vol.post", "pve.post"}) # <<>>
        /\ <<"storageA", "-CLONE">> \in DOMAIN pveStorage
        /\ <<"storageA_vol", "_clone">> \in DOMAIN volumes

\* the volume a backend exports: its export path without the leading slash
ExportedVolume(backend) ==
    SubSeq(pveStorage[backend].export, 2, Len(pveStorage[backend].export))

\* C20: when a mount of backend B at snapshot S has returned and B-CLONE is
\* registered, the volume B-CLONE exports exists and is a clone of B's
\* volume at snapshot S.
C20_MountedCloneIsOfTheSnapshot ==
    \A p \in Procs :
        LET s == proc[p]
            c == s.storage \o <<"-CLONE">>
        IN  (s.cmd = "mount" /\ s.pc = "done" /\ c \in DOMAIN pveStorage) =>
              /\ ExportedVolume(c) \in DOMAIN volumes
              /\ volumes[ExportedVolume(c)].is_flexclone
              /\ volumes[ExportedVolume(c)].parent = s.volume_name
              /\ volumes[ExportedVolume(c)].parent_snapshot = s.snapshot

(***************************************************************************)
(* Lifecycle methods (specifications SpecVMFair and SpecVM)                *)
(***************************************************************************)
\* the task of the invocation has finished while the method is in its loop
TaskFinishedIn(s, kinds) ==
    /\ \E k \in kinds : s.pc \in {k \o ".poll", k \o ".sleep"}
    /\ s.task = "stopped"

\* C21: once the task of shutdown, suspend or start has finished, the
\* method leaves its polling loop: it returns, or an API error ends it.
C21_FinishedTaskReturns ==
    \A p \in Procs :
        TaskFinishedIn(proc[p], {"shutdown", "suspend", "start"})
            ~> ~Polling(proc[p])

\* the invocation is between two lifecycle methods or after the last one:
\* no task of it is at work
AtRest(s) ==
    /\ Constructed(s)
    /\ s.pc \in {"suspend.post", "shutdown.post", "clone", "get_volume",
                  "fileclone.post", "start.post", "done"}

\* C22: whenever a lifecycle method has returned, the cached status of the
\* VM is the status the compute node reports for it; after a create that
\* quiesced the VM and started it again, the cached status of the running
\* VM is not 'stopped'.
C22_CachedStatusIsCurrent ==
    \A p \in Procs :
        LET s == proc[p]
        IN  AtRest(s) =>
              /\ s.status = vmStatus
              /\ (s.pc = "done" /\ (s.suspend \/ s.shutdown)
                      /\ vmStatus = "running") => s.status # "stopped"

(***************************************************************************)
(* VM create: failures, warning, lifecycle (specification SpecVM)          *)
(***************************************************************************)
\* the i-th file-clone request of the invocation was carried out: its
\* destination holds the data of the disk
CloneDone(s, i) ==
    LET v == s.storages[i].volume_name
        dst == FileClones(s)[i].b
    IN  /\ v \in DOMAIN volumes
        /\ dst \in DOMAIN volumes[v].files
        /\ volumes[v].files[dst] = "now"

\* the process ended in the loop over the disks
EndedWhileCloning(s) ==
    /\ Constructed(s) /\ s.pc = "exit" /\ s.timestamp # <<>>
    /\ \/ Len(FileClones(s)) < Len(s.storages)
       \/ ~CloneDone(s, Len(s.storages))

\* C23: start is requested only after one file-clone request per disk has
\* succeeded; a process that ended in the loop over the disks has requested
\* no start, has exit status 1 and leaves the VM in the power state it had
\* when cloning began.
C23_NoStartAfterFailedClone ==
    \A p \in Procs :
        LET s == proc[p]
        IN  /\ (Constructed(s) /\ Positions(s, {"start.post"}) # {}) =>
                  /\ Len(FileClones(s)) = Len(s.storages)
                  /\ \A i \in 1..Len(s.storages) : CloneDone(s, i)
            /\ EndedWhileCloning(s) =>
                  /\ Positions(s, {"start.post"}) = {}
                  /\ s.exitCode = 1
                  /\ vmStatus = s.status

\* after a shutdown, the second file-clone request was refused and the
\* process ended with the VM stopped
C23_Witness ==
    \E p \in Procs :
        /\ EndedWhileCloning(proc[p])
        /\ proc[p].shutdown
        /\ Returned(proc[p], "shutdown", "stopped")
        /\ Len(FileClones(proc[p])) = 2
        /\ proc[p].exc = "NetAppRestError"
        /\ vmStatus = "stopped"

(***************************************************************************)
(* Lookups that find no volume (specification SpecLookup)                  *)
(***************************************************************************)
\* the requests that create or delete something
Mutating ==
    {"snap.post", "snap.delete", "cli.restore", "vol.post", "pve.post",
     "pve.delete", "vol.delete", "fileclone.post"}

\* the name the invocation is about to look up and will not find
LooksUpInVain(s) ==
    \/ /\ s.pc \in {"create", "restore", "delete", "mount", "unmount"}
       /\ s.volume_name \notin DOMAIN volumes
    \/ /\ s.pc = "get_volume"
       /\ s.storages[s.i].volume_name \notin DOMAIN volumes

\* C24, as stated: a process that ended because a lookup found no volume
\* has issued no mutating request at all.
C24_NoMutationAtAll ==
    \A p \in Procs :
        LET s == proc[p]
        IN  (s.pc = "exit" /\ s.exc = "AttributeError") =>
               Requests(s, Mutating) = <<>>

\* C24, amended: the step of a lookup that finds no volume ends the process
\* with exit status 1 and issues no request; nothing is created or deleted
\* by it, and the requests issued before it are the file clones of the
\* earlier disks of a vm create and nothing else.
C24_NoMutationAfterFailedLookup ==
    [][\A p \in Procs :
          LET s == proc[p]
              t == proc'[p]
          IN  (LooksUpInVain(s) /\ t # s) =>
                /\ t.pc = "exit" /\ t.exitCode = 1
                /\ t.log = s.log
                /\ pveStorage' = pveStorage
                /\ volumes' = volumes
                /\ s.cmd # "vm create" => s.log = <<>>
                /\ s.cmd = "vm create" =>
                      /\ Len(s.log) = s.i - 1
                      /\ \A i \in 1..Len(s.log) : s.log[i].op = "fileclone.post"
      ]_vars

\* a vm create has cloned its first disk and ended at the lookup of the
\* volume of storageA-CLONE, a backend registered without its volume
C24_Witness ==
    \E p \in Procs :
        /\ proc[p].cmd = "vm create"
        /\ proc[p].pc = "exit" /\ proc[p].exc = "AttributeError"
        /\ proc[p].i = 2
        /\ Len(FileClones(proc[p])) = 1
        /\ <<"storageA", "-CLONE">> \in DOMAIN pveStorage
        /\ <<"storageA_vol", "_clone">> \notin DOMAIN volumes

\* C25: when cloning starts, every requested suspend and shutdown has
\* returned; the step that starts it warns exactly when the cached status
\* is not 'stopped' and goes on to the first disk with or without the
\* warning; the file-clone requests are issued in both cases.
C25_WarningIffNotStopped ==
    [][\A p \in Procs :
          LET s == proc[p]
              t == proc'[p]
          IN  /\ (s.pc = "clone" /\ t # s) =>
                    /\ \A kind \in {"suspend", "shutdown"} :
                          s[kind] => Returned(s, kind, "stopped")
                    /\ t.warned = (s.status # "stopped")
                    /\ t.status = s.status
                    /\ t.exitCode = 0
                    /\ s.storages # <<>> => t.pc = "get_volume"
              /\ (s.pc = "fileclone.post" /\ t # s) =>
                    /\ t.warned = s.warned
                    /\ s.warned = (s.status # "stopped")
                    /\ Len(FileClones(t)) = Len(FileClones(s)) + 1
      ]_vars

\* a create of a running VM has warned and cloned both disks
C25_Witness ==
    \E p \in Procs :
        /\ Constructed(proc[p])
        /\ proc[p].warned /\ proc[p].status = "running"
        /\ Len(FileClones(proc[p])) = 2
        /\ proc[p].pc = "done"

\* C26: a vm create with neither suspend nor shutdown requested issues no
\* shutdown, suspend or start request and polls no task, and no step taken
\* while it runs changes the power state of the VM.
C26_NoLifecycleUnlessRequested ==
    [][\A p \in Procs :
          LET s == proc[p]
              t == proc'[p]
          IN  (t.cmd = "vm create" /\ ~t.suspend /\ ~t.shutdown) =>
                /\ Positions(t, LifecycleOps) = {}
                /\ ~Polling(t)
                /\ vmStatus' = vmStatus
                /\ Constructed(t) => t.status = vmStatus'
      ]_vars

\* a create without suspend and shutdown has cloned both disks of a
\* running VM and returned
C26_Witness ==
    \E p \in Procs :
        /\ proc[p].cmd = "vm create"
        /\ ~proc[p].suspend /\ ~proc[p].shutdown
        /\ proc[p].pc = "done"
        /\ Len(FileClones(proc[p])) = 2
        /\ proc[p].log = FileClones(proc[p])
        /\ vmStatus = "running"

(***************************************************************************)
(* Interleaved invocations (specification SpecRace)                        *)
(***************************************************************************)
\* another invocation is in the middle of an unmount of the same backend
OtherUnmounting(p) ==
    \E q \in RaceProcs \ {p} :
        /\ proc[q].cmd = "unmount"
        /\ proc[q].storage = proc[p].storage
        /\ proc[q].pc \in {"pve.delete", "vol.delete"}

\* C27: nothing excludes a second unmount of the same backend: an unmount
\* whose volume is a clone passes the check whatever another invocation is
\* doing, and, once past it, issues its delete request for the backend
\* (then for the volume) even when that is already gone, in which case the
\* request fails and the process ends with exit status 1.
C27_UnmountsAreNotExcluded ==
    [][\A p \in RaceProcs :
          LET s == proc[p]
              t == proc'[p]
          IN  /\ (s.pc = "unmount" /\ t # s /\ s.volume_name \in DOMAIN volumes
                      /\ volumes[s.volume_name].is_flexclone) =>
                    t.pc = "pve.delete"
              /\ (s.pc = "pve.delete" /\ t # s) =>
                    /\ t.log = Append(s.log, [op |-> "pve.delete", a |-> s.storage,
                                              b |-> <<>>])
                    /\ s.storage \notin DOMAIN pveStorage =>
                          /\ t.pc = "exit" /\ t.exitCode = 1
                          /\ pveStorage' = pveStorage /\ volumes' = volumes
              /\ (s.pc = "vol.delete" /\ t # s) =>
                    /\ t.log = Append(s.log, [op |-> "vol.delete", a |-> s.volume,
                                              b |-> <<>>])
                    /\ s.volume \notin DOMAIN volumes =>
                          /\ t.pc = "exit" /\ t.exitCode = 1
                          /\ pveStorage' = pveStorage /\ volumes' = volumes
      ]_vars

\* both invocations passed the check before either deleted; one has
\* deleted the backend, the other has asked to delete it again and failed
C27_Witness ==
    \E p \in RaceProcs, q \in RaceProcs :
        /\ p # q
        /\ proc[p].cmd = "unmount" /\ proc[q].cmd = "unmount"
        /\ proc[p].storage = proc[q].storage
        /\ proc[q].pc = "vol.delete"
        /\ proc[q].log = <<[op |-> "pve.delete", a |-> proc[q].storage, b |-> <<>>]>>
        /\ proc[p].pc = "exit" /\ proc[p].exc = "ResourceException"
        /\ proc[p].log = <<[op |-> "pve.delete", a |-> proc[p].storage, b |-> <<>>]>>
        /\ proc[p].volume = proc[q].volume
        /\ proc[p].storage \notin DOMAIN pveStorage

(***************************************************************************)
(* Storage create within one second                                        *)
(***************************************************************************)
\* the snap.post requests an invocation has sent
SnapshotRequests(s) == SelectSeq(s.log, LAMBDA e : e.op = "snap.post")

\* C28: the name a Storage create generates is proxmox_snapshot_ followed by
\* the timestamp of the current second and nothing else, also when the volume
\* already has a snapshot of that name; the name is submitted as generated,
\* once, and the invocation ends with that submission (no second attempt, no
\* other name).
C28_CollidingNameIsSubmitted ==
    [][\A p \in Procs :
          LET s == proc[p]
              t == proc'[p]
          IN  /\ (s.pc = "create" /\ s.variant = "" /\ t # s
                      /\ s.volume_name \in DOMAIN volumes) =>
                    /\ t.pc = "snap.post"
                    /\ t.snapshot = SNAPSHOT_PREFIX \o strftime(clock)
              /\ (s.pc = "snap.post" /\ s.variant = "" /\ t # s) =>
                    /\ t.log = Append(s.log, [op |-> "snap.post", a |-> s.volume,
                                              b |-> s.snapshot])
                    /\ Len(SnapshotRequests(t)) = 1
                    /\ t.pc \in {"done", "exit"}
                    /\ (s.volume \in DOMAIN volumes /\ s.snapshot \in volumes[s.volume].snaps) =>
                          t.pc = "exit" /\ t.exitCode = 1 /\ volumes' = volumes
      ]_vars

\* a second create in the same second has submitted the name the first
\* one gave its snapshot, and the request was refused
C28_Witness ==
    \E p \in Procs :
        LET s == proc[p]
        IN  /\ s.cmd = "create" /\ s.variant = ""
            /\ s.pc = "exit" /\ s.exc = "NetAppRestError"
            /\ s.snapshot = SNAPSHOT_PREFIX \o strftime(clock)
            /\ s.snapshot \notin InitVolumes[s.volume].snaps
            /\ s.snapshot \in volumes[s.volume].snaps
            /\ SnapshotRequests(s) = <<[op |-> "snap.post", a |-> s.volume, b |-> s.snapshot]>>

====
